---- MODULE Spec2Model ----
(***************************************************************************)
(* The imagenet_txt annotation codec of datumaro                           *)
(* (datumaro/plugins/imagenet_txt_format.py): ImagenetTxtExtractor decodes *)
(* an annotation file and a label catalog, ImagenetTxtConverter encodes    *)
(* them.  Text is a sequence of one-character strings.                     *)
(***************************************************************************)
EXTENDS Integers, Sequences, FiniteSets, TLC

VARIABLES
    pc,               \* where the program is: "apply", "init", "load_items", "done", "raised"
    subset,           \* converter input: the items of the one subset, in iteration order
    image_ext,        \* converter option: the extension to write, <<>> if not set
    conv_labels,      \* converter: the dict labels of apply, in insertion order
    src_labels,       \* converter input: the names of extractor.categories()
    annotation_file,  \* content of <subset>.txt
    labels_file,      \* content of synsets.txt
    categories,       \* extractor: self._categories[AnnotationType.label], a list of names
    lineno,           \* extractor: lines of annotation_file consumed by the loop of _load_items
    items,            \* extractor: the local dict of _load_items, in insertion order
    self_items,       \* extractor: self._items, Unset until __init__ assigns it
    error             \* the exception that left __init__, NoError if none

vars == <<pc, subset, src_labels, image_ext, conv_labels, annotation_file, labels_file, categories,
          lineno, items, self_items, error>>

(***************************************************************************)
(* Bounds of the model.                                                    *)
(***************************************************************************)
MaxLineLen == 4     \* longest line explored character by character
MaxLines == 3       \* most lines of a file built from PoolLines
MaxCatalog == 2     \* largest catalog

(***************************************************************************)
(* Characters and text.                                                    *)
(***************************************************************************)
Quote == "\""
NL == "\n"
Space == " "
ExtSep == "."
PathSep == "/"
\* what str.split() and str.strip() treat as whitespace (the ASCII part)
Whitespace == {" ", "\n", "\t", "\r"}
Digits == {"0", "1", "2", "3", "4", "5", "6", "7", "8", "9"}

RECURSIVE Concat(_)
Concat(ss) == IF ss = <<>> THEN <<>> ELSE Head(ss) \o Concat(Tail(ss))

Count(s, c) == Cardinality({i \in 1..Len(s) : s[i] = c})

\* index of the first / last occurrence of c in s, 0 if there is none
Find(s, c) ==
    IF \E i \in 1..Len(s) : s[i] = c
    THEN CHOOSE i \in 1..Len(s) : s[i] = c /\ \A j \in 1..(i - 1) : s[j] # c
    ELSE 0

RFind(s, c) ==
    IF \E i \in 1..Len(s) : s[i] = c
    THEN CHOOSE i \in 1..Len(s) : s[i] = c /\ \A j \in (i + 1)..Len(s) : s[j] # c
    ELSE 0

\* str.split(c): the pieces between the occurrences of c, empty pieces kept
RECURSIVE SplitOn(_, _)
SplitOn(s, c) ==
    LET i == Find(s, c)
    IN  IF i = 0 THEN <<s>>
        ELSE <<SubSeq(s, 1, i - 1)>> \o SplitOn(SubSeq(s, i + 1, Len(s)), c)

\* str.split(): the maximal runs of non-whitespace characters
RECURSIVE SplitWS(_)
SplitWS(s) ==
    IF s = <<>> THEN <<>>
    ELSE IF Head(s) \in Whitespace THEN SplitWS(Tail(s))
    ELSE LET ends == {i \in 1..Len(s) : s[i] \in Whitespace}
             n == IF ends = {} THEN Len(s) + 1
                  ELSE CHOOSE i \in ends : \A j \in ends : i <= j
         IN  <<SubSeq(s, 1, n - 1)>> \o SplitWS(SubSeq(s, n, Len(s)))

\* str.strip()
RECURSIVE Strip(_)
Strip(s) ==
    IF s = <<>> THEN s
    ELSE IF Head(s) \in Whitespace THEN Strip(Tail(s))
    ELSE IF s[Len(s)] \in Whitespace THEN Strip(SubSeq(s, 1, Len(s) - 1))
    ELSE s

\* iteration over a text file: each line keeps its terminator, a last line
\* without terminator is yielded as it is
RECURSIVE ReadLines(_)
ReadLines(text) ==
    LET i == Find(text, NL)
    IN  IF text = <<>> THEN <<>>
        ELSE IF i = 0 THEN <<text>>
        ELSE <<SubSeq(text, 1, i)>> \o ReadLines(SubSeq(text, i + 1, Len(text)))

\* os.path.splitext (posixpath): <<root, ext>>; the extension starts at the last
\* dot of the last path component, and leading dots of the component are no
\* extension
Splitext(p) ==
    LET sepIndex == RFind(p, PathSep)
        dotIndex == RFind(p, ExtSep)
    IN  IF dotIndex > sepIndex
           /\ \E k \in (sepIndex + 1)..(dotIndex - 1) : p[k] # ExtSep
        THEN <<SubSeq(p, 1, dotIndex - 1), SubSeq(p, dotIndex, Len(p))>>
        ELSE <<p, <<>> >>

\* os.path.join(a, b) (posixpath)
OspJoin(a, b) ==
    IF b # <<>> /\ Head(b) = PathSep THEN b
    ELSE IF a = <<>> \/ a[Len(a)] = PathSep THEN a \o b
    ELSE a \o <<PathSep>> \o b

DigitVal(c) ==
    CASE c = "0" -> 0 [] c = "1" -> 1 [] c = "2" -> 2 [] c = "3" -> 3
      [] c = "4" -> 4 [] c = "5" -> 5 [] c = "6" -> 6 [] c = "7" -> 7
      [] c = "8" -> 8 [] c = "9" -> 9

RECURSIVE DecimalVal(_)
DecimalVal(ds) ==
    IF ds = <<>> THEN 0
    ELSE 10 * DecimalVal(SubSeq(ds, 1, Len(ds) - 1)) + DigitVal(ds[Len(ds)])

\* int(tok) of a token without whitespace: an optional sign and decimal digits,
\* which single underscores may separate; ok = FALSE stands for ValueError
ParseInt(tok) ==
    LET signed == tok # <<>> /\ Head(tok) \in {"+", "-"}
        body == IF signed THEN Tail(tok) ELSE tok
        wellFormed ==
            /\ body # <<>>
            /\ \A i \in 1..Len(body) : body[i] \in Digits \cup {"_"}
            /\ body[1] \in Digits /\ body[Len(body)] \in Digits
            /\ \A i \in 1..(Len(body) - 1) : ~(body[i] = "_" /\ body[i + 1] = "_")
        ds == SelectSeq(body, LAMBDA c : c \in Digits)
        mag == DecimalVal(ds)
    IN  IF ~wellFormed THEN [ok |-> FALSE, val |-> 0]
        ELSE [ok |-> TRUE, val |-> IF signed /\ Head(tok) = "-" THEN 0 - mag ELSE mag]

(***************************************************************************)
(* ImagenetTxtPath and the extractor.                                      *)
(***************************************************************************)
IMAGE_DIR == <<"i", "m", "a", "g", "e", "s">>

NoError == [type |-> "none", args |-> <<>>]
Unset == <<"unset">>

\* DatasetItem(id=..., image=..., annotations=[Label(l), ...])
DatasetItem(id, image, annotations) ==
    [id |-> id, image |-> image, annotations |-> annotations]

\* a faulty DictSet, which moves a key that is set again to the end
DictSetMovingKey(d, key, value) ==
    Append(SelectSeq(d, LAMBDA e : e.key # key), [key |-> key, value |-> value])

\* d[key] = value on a dict: a key already present keeps its position
DictSet(d, key, value) ==
    IF \E i \in 1..Len(d) : d[i].key = key
    THEN [i \in 1..Len(d) |-> IF d[i].key = key THEN [key |-> key, value |-> value] ELSE d[i]]
    ELSE Append(d, [key |-> key, value |-> value])

\* list(d.values())
DictValues(d) == [i \in 1..Len(d) |-> d[i].value]

\* self.image_dir for a file in the current directory and no image_dir argument
ImageDir == OspJoin(<<>>, IMAGE_DIR)

\* [int(id) for id in tokens]: ValueError at the first token that is no integer
LabelIds(tokens) == [i \in 1..Len(tokens) |-> ParseInt(tokens[i])]

\* a faulty test of the pieces, which accepts any line with two quotes or more
AtLeastOneQuotedSegment(item) == Len(item) >= 3

\* the test of line 57 on the pieces of line.split('"')
OneQuotedSegment(item) == Len(item) = 3

\* a faulty range check, off by one at the upper end
KnownLabelInclusive(label, ncategories) == 0 <= label /\ label <= ncategories

\* the asserted condition of lines 73-74
KnownLabel(label, ncategories) == 0 <= label /\ label < ncategories

\* a faulty item_id, which cuts the filename at its last dot wherever that is
ItemIdBeforeLastDot(filename) ==
    IF RFind(filename, ExtSep) = 0 THEN filename
    ELSE SubSeq(filename, 1, RFind(filename, ExtSep) - 1)

\* item_id of an unquoted line (line 67)
UnquotedItemId(filename) == Splitext(filename)[1]

\* the body of the loop of _load_items for one line: the exception it raises,
\* or the item it stores
ParseLine(line, ncategories) ==
    LET item == SplitOn(line, Quote)
        quoted == 1 < Len(item)
        toks == IF quoted THEN SplitWS(item[3]) ELSE SplitWS(line)
        item_id == IF quoted THEN item[2] ELSE UnquotedItemId(toks[1])
        image == IF quoted THEN item_id \o toks[1] ELSE toks[1]
        label_ids == LabelIds(Tail(toks))
        bad == {i \in 1..Len(label_ids) : ~KnownLabel(label_ids[i].val, ncategories)}
        first == CHOOSE i \in bad : \A j \in bad : i <= j
    IN  IF quoted /\ ~OneQuotedSegment(item)
        THEN [error |-> [type |-> "Exception",
                         args |-> <<"unexpected number of quotes in filename", line>>],
              item |-> Unset]
        ELSE IF toks = <<>>
        THEN [error |-> [type |-> "IndexError", args |-> <<"list index out of range">>],
              item |-> Unset]
        ELSE IF \E i \in 1..Len(label_ids) : ~label_ids[i].ok
        THEN [error |-> [type |-> "ValueError", args |-> <<"invalid literal for int()">>],
              item |-> Unset]
        ELSE IF bad # {}
        THEN [error |-> [type |-> "AssertionError",
                         args |-> <<"unknown label id", item_id, label_ids[first].val>>],
              item |-> Unset]
        ELSE [error |-> NoError,
              item |-> DatasetItem(item_id, OspJoin(ImageDir, image),
                                   [i \in 1..Len(label_ids) |-> label_ids[i].val])]

Lines == ReadLines(annotation_file)

\* a faulty loop, which skips a line that fails to decode
LoadLineSkipping ==
    /\ pc = "load_items"
    /\ lineno < Len(Lines)
    /\ LET r == ParseLine(Lines[lineno + 1], Len(categories))
       IN  /\ items' = IF r.error = NoError THEN DictSet(items, r.item.id, r.item) ELSE items
           /\ lineno' = lineno + 1
           /\ UNCHANGED <<pc, error>>
    /\ UNCHANGED <<subset, src_labels, image_ext, conv_labels, annotation_file,
                   labels_file, categories, self_items>>

\* one iteration of the loop of _load_items; an exception leaves __init__
LoadLine ==
    /\ pc = "load_items"
    /\ lineno < Len(Lines)
    /\ LET r == ParseLine(Lines[lineno + 1], Len(categories))
       IN  IF r.error = NoError
           THEN /\ items' = DictSet(items, r.item.id, r.item)
                /\ lineno' = lineno + 1
                /\ UNCHANGED <<pc, error>>
           ELSE /\ pc' = "raised"
                /\ error' = r.error
                /\ UNCHANGED <<items, lineno>>
    /\ UNCHANGED <<subset, src_labels, image_ext, conv_labels, annotation_file,
                   labels_file, categories, self_items>>

\* the loop is over: self._items = list(self._load_items(path).values())
Finish ==
    /\ pc = "load_items"
    /\ lineno = Len(Lines)
    /\ self_items' = DictValues(items)
    /\ pc' = "done"
    /\ UNCHANGED <<subset, src_labels, image_ext, conv_labels, annotation_file,
                   labels_file, categories, lineno, items, error>>

\* a faulty _parse_labels, which drops the lines that are blank
ParseLabelsSkippingBlank(text) ==
    LET ls == ReadLines(text)
    IN  SelectSeq([i \in 1..Len(ls) |-> Strip(ls[i])], LAMBDA name : name # <<>>)

\* _parse_labels: one name per line of the labels file, stripped
ParseLabels(text) ==
    LET ls == ReadLines(text) IN [i \in 1..Len(ls) |-> Strip(ls[i])]

\* _load_categories: LabelCategories().from_iterable(labels), one entry per name,
\* in order
LoadCategories(labels) == labels

\* __init__ with labels=None (lines 32-38): the catalog is read from the labels
\* file beside the annotation file
ExtractorInit ==
    /\ pc = "init"
    /\ categories' = LoadCategories(ParseLabels(labels_file))
    /\ pc' = "load_items"
    /\ UNCHANGED <<subset, src_labels, image_ext, conv_labels, annotation_file,
                   labels_file, lineno, items, self_items, error>>

(***************************************************************************)
(* The converter.                                                          *)
(***************************************************************************)
DEFAULT_IMAGE_EXT == <<".", "j", "p", "g">>

Label(l) == [type |-> "label", label |-> l]
Bbox(l) == [type |-> "bbox", label |-> l]

\* Converter._find_image_ext for an item without image data: the converter's
\* image_ext option if it is set, the default extension otherwise
FindImageExt(item) == IF image_ext # <<>> THEN image_ext ELSE DEFAULT_IMAGE_EXT

\* the test of line 117
NeedsQuotes(item_id) == 1 < Len(SplitWS(item_id))

\* lines 116-119: the filename token of an item
FilenameToken(item) ==
    (IF NeedsQuotes(item.id) THEN <<Quote>> \o item.id \o <<Quote>> ELSE item.id)
        \o FindImageExt(item)

\* iteration over a set of ints: CPython keeps an int in the slot of its value
\* while the value is below the table size, so the small label ids of the model
\* come out in ascending order
RECURSIVE SetIter(_)
SetIter(S) ==
    IF S = {} THEN <<>>
    ELSE LET m == CHOOSE x \in S : \A y \in S : x <= y
         IN  <<m>> \o SetIter(S \ {m})

\* faulty labels of an item: a list, which keeps the duplicates
ItemLabelsAsList(item) ==
    LET anns == SelectSeq(item.annotations, LAMBDA p : p.type = "label")
    IN  [i \in 1..Len(anns) |-> anns[i].label]

\* lines 120-121 and their iteration at line 129
ItemLabels(item) ==
    SetIter({item.annotations[i].label :
                i \in {j \in 1..Len(item.annotations) : item.annotations[j].type = "label"}})

DigitChar(d) ==
    CASE d = 0 -> "0" [] d = 1 -> "1" [] d = 2 -> "2" [] d = 3 -> "3" [] d = 4 -> "4"
      [] d = 5 -> "5" [] d = 6 -> "6" [] d = 7 -> "7" [] d = 8 -> "8" [] d = 9 -> "9"

\* str(l) of an int
RECURSIVE IntToStr(_)
IntToStr(n) ==
    IF n < 0 THEN <<"-">> \o IntToStr(0 - n)
    ELSE IF n < 10 THEN <<DigitChar(n)>>
    ELSE IntToStr(n \div 10) \o <<DigitChar(n % 10)>>

\* ' '.join(strs)
RECURSIVE JoinSpace(_)
JoinSpace(strs) ==
    IF strs = <<>> THEN <<>>
    ELSE IF Len(strs) = 1 THEN strs[1]
    ELSE strs[1] \o <<Space>> \o JoinSpace(Tail(strs))

\* the loop of lines 115-121 over the first n items: the dict labels
RECURSIVE CollectLabels(_, _)
CollectLabels(its, n) ==
    IF n = 0 THEN <<>>
    ELSE DictSet(CollectLabels(its, n - 1), FilenameToken(its[n]), ItemLabels(its[n]))

\* lines 126-129: the text of the annotation file
AnnotationText(labels) ==
    Concat([i \in 1..Len(labels) |->
        labels[i].key \o <<Space>>
            \o JoinSpace([k \in 1..Len(labels[i].value) |-> IntToStr(labels[i].value[k])])
            \o <<NL>>])

\* lines 134-139: the text of the labels file
LabelsText(names) == Concat([i \in 1..Len(names) |-> names[i] \o <<NL>>])

\* apply for the one subset; the items carry no image data, so nothing is saved
\* at line 124
Apply ==
    /\ pc = "apply"
    /\ conv_labels' = CollectLabels(subset, Len(subset))
    /\ annotation_file' = AnnotationText(conv_labels')
    /\ labels_file' = LabelsText(src_labels)
    /\ pc' = "init"
    /\ UNCHANGED <<subset, src_labels, image_ext, categories, lineno, items,
                   self_items, error>>

(***************************************************************************)
(* Decoding: the extractor is given its label names as a list and an       *)
(* annotation file.                                                        *)
(***************************************************************************)
Alphabet == {"a", " ", "\"", ".", "0", "1", "-"}

ShortLines == UNION {[1..n -> Alphabet] : n \in 0..MaxLineLen}

PoolLines == {
    <<"a", ".", "j", " ", "0">>,
    <<"a", ".", "p", " ", "1">>,
    <<"b", ".", "j", " ", "1", " ", "0">>,
    <<"\"", "a", " ", "b", "\"", ".", "j", " ", "0">>,
    <<"\"", "a", " ", "b", "\"", ".", "p", " ", "1", " ", "1">>,
    <<"a", ".", "b", "/", "c", " ", "0">>,
    <<>>,
    <<"\"", "a", ".", "j", " ", "0">>,
    <<"a", ".", "j", " ", "2">>,
    <<"a", ".", "j", " ", "x">>
}

Terminated(ls) == Concat([i \in 1..Len(ls) |-> ls[i] \o <<NL>>])

PoolFiles == {Terminated(ls) : ls \in UNION {[1..n -> PoolLines] : n \in 0..MaxLines}}

Catalogs == {[i \in 1..n |-> <<"c">>] : n \in 1..MaxCatalog}

Init ==
    /\ pc = "load_items"
    /\ subset = <<>>
    /\ src_labels = <<>>
    /\ image_ext = <<>>
    /\ conv_labels = <<>>
    /\ labels_file = <<>>
    /\ annotation_file \in ShortLines \cup PoolFiles
    /\ categories \in Catalogs
    /\ lineno = 0
    /\ items = <<>>
    /\ self_items = Unset
    /\ error = NoError

Next == LoadLine \/ Finish

Spec == Init /\ [][Next]_vars

(***************************************************************************)
(* Round trip: the converter writes a subset and a catalog, and an         *)
(* extractor reads what it wrote.                                          *)
(***************************************************************************)
MaxItems == 2       \* most items of a subset

IdPool == {
    <<"a">>,
    <<"b">>,
    <<"a", " ", "b">>,
    <<" ", "a">>,
    <<"a", " ">>,
    <<>>,
    <<"a", ".", "b">>,
    <<"a", "\"", "b">>,
    <<"a", "\n", "b">>
}

AnnotationPool == {
    <<>>,
    <<Label(0)>>,
    <<Label(1), Label(0)>>,
    <<Label(0), Bbox(1), Label(0)>>,
    <<Label(MaxCatalog)>>
}

ItemPool == {DatasetItem(id, <<>>, anns) : id \in IdPool, anns \in AnnotationPool}

\* the items of a subset have distinct ids
Subsets ==
    {s \in UNION {[1..n -> ItemPool] : n \in 0..MaxItems} :
        \A i, j \in 1..Len(s) : i # j => s[i].id # s[j].id}

NamePool == {
    <<"a">>,
    <<"b">>,
    <<>>,
    <<"a", " ", "b">>,
    <<" ", "a">>,
    <<"a", " ">>,
    <<"a", "\n", "b">>,
    <<"\t">>
}

NameCatalogs == UNION {[1..n -> NamePool] : n \in 0..MaxCatalog}

FullCatalog == [i \in 1..MaxCatalog |-> <<"c", DigitChar(i - 1)>>]

InitRoundTrip ==
    /\ pc = "apply"
    /\ \/ subset \in Subsets /\ src_labels = FullCatalog
       \/ subset = <<>> /\ src_labels \in NameCatalogs
    /\ image_ext \in {<<>>, <<".", "p">>}
    /\ conv_labels = <<>>
    /\ annotation_file = <<>>
    /\ labels_file = <<>>
    /\ categories = <<>>
    /\ lineno = 0
    /\ items = <<>>
    /\ self_items = Unset
    /\ error = NoError

NextRoundTrip == Apply \/ ExtractorInit \/ LoadLine \/ Finish

SpecRoundTrip == InitRoundTrip /\ [][NextRoundTrip]_vars

(***************************************************************************)
(* Properties.                                                             *)
(***************************************************************************)
NumQuotes(line) == Count(line, Quote)

\* the lines consumed so far, as the loop body decodes each on its own
Decoded(i) == ParseLine(Lines[i], Len(categories)).item

FirstLineOf(id) ==
    CHOOSE i \in 1..lineno : Decoded(i).id = id /\ \A j \in 1..(i - 1) : Decoded(j).id # id

LastLineOf(id) ==
    CHOOSE i \in 1..lineno : Decoded(i).id = id /\ \A j \in (i + 1)..lineno : Decoded(j).id # id

\* C2: after the lines consumed so far, the collection holds one record per
\* distinct item id, in the order of the ids' first lines, each record being what
\* the last line of its id decodes to; the finished extractor holds exactly these
\* records in this order.
C2_OverwriteInPlace ==
    /\ \A k, m \in 1..Len(items) : k # m => items[k].key # items[m].key
    /\ {items[k].key : k \in 1..Len(items)} = {Decoded(i).id : i \in 1..lineno}
    /\ \A k, m \in 1..Len(items) :
          k < m => FirstLineOf(items[k].key) < FirstLineOf(items[m].key)
    /\ \A k \in 1..Len(items) :
          /\ items[k].value.id = items[k].key
          /\ items[k].value = Decoded(LastLineOf(items[k].key))
    /\ pc = "done" =>
          /\ lineno = Len(Lines)
          /\ self_items = [k \in 1..Len(items) |-> items[k].value]

\* a file of three lines, the third repeating the id of the first with another
\* image and other labels, has been decoded into two records
C2_Witness ==
    /\ pc = "done"
    /\ Len(Lines) = 3
    /\ Len(self_items) = 2
    /\ Decoded(1).id = Decoded(3).id
    /\ Decoded(1).id # Decoded(2).id
    /\ Decoded(1).image # Decoded(3).image
    /\ Decoded(1).annotations # Decoded(3).annotations
    /\ self_items[1] = Decoded(3)

BadQuoteCount(line) == NumQuotes(line) = 1 \/ NumQuotes(line) >= 4

\* C3: a line with exactly one, or with four or more, double quotes is never
\* consumed into the collection: the decode stops at it with the error
\* "unexpected number of quotes in filename", which carries the line.
C3_QuoteCountValidation ==
    /\ \A i \in 1..lineno : ~BadQuoteCount(Lines[i])
    /\ pc = "done" => lineno = Len(Lines)
    /\ (pc = "raised" /\ BadQuoteCount(Lines[lineno + 1])) =>
          error = [type |-> "Exception",
                   args |-> <<"unexpected number of quotes in filename", Lines[lineno + 1]>>]

C3_Witness ==
    /\ pc = "raised"
    /\ NumQuotes(Lines[lineno + 1]) >= 4
    /\ error.type = "Exception"

\* the label tokens of a line with no quote or with two quotes: the tokens after
\* the filename token
TextAfterQuotes(line) == SubSeq(line, RFind(line, Quote) + 1, Len(line))
TextInQuotes(line) == SubSeq(line, Find(line, Quote) + 1, RFind(line, Quote) - 1)
TokensOf(line) ==
    IF NumQuotes(line) = 0 THEN SplitWS(line) ELSE SplitWS(TextAfterQuotes(line))

\* the line has a filename token, and integers after it
WellFormedLine(line) ==
    /\ NumQuotes(line) \in {0, 2}
    /\ TokensOf(line) # <<>>
    /\ \A i \in 2..Len(TokensOf(line)) : ParseInt(TokensOf(line)[i]).ok

LabelValues(line) ==
    [i \in 1..(Len(TokensOf(line)) - 1) |-> ParseInt(TokensOf(line)[i + 1]).val]

InCatalog(l) == l \in 0..(Len(categories) - 1)

\* C4: every label id of every decoded item lies in 0 .. catalog size - 1; a line
\* that carries a label id outside this range is never consumed, the decode stops
\* at it with the assertion error that names the item id and the offending id.
C4_LabelIdBound ==
    /\ \A k \in 1..Len(items) :
          \A a \in 1..Len(items[k].value.annotations) :
              InCatalog(items[k].value.annotations[a])
    /\ pc = "done" =>
          /\ lineno = Len(Lines)
          /\ \A k \in 1..Len(self_items) :
                \A a \in 1..Len(self_items[k].annotations) :
                    InCatalog(self_items[k].annotations[a])
    /\ \A i \in 1..lineno :
          \A a \in 1..Len(LabelValues(Lines[i])) : InCatalog(LabelValues(Lines[i])[a])
    /\ (pc = "raised" /\ WellFormedLine(Lines[lineno + 1])) =>
          /\ error.type = "AssertionError"
          /\ Len(error.args) = 3
          /\ ~InCatalog(error.args[3])
          /\ \E a \in 1..Len(LabelValues(Lines[lineno + 1])) :
                /\ LabelValues(Lines[lineno + 1])[a] = error.args[3]
                /\ \A b \in 1..(a - 1) : InCatalog(LabelValues(Lines[lineno + 1])[b])

\* the decode stopped at a line whose label id is the catalog size
C4_Witness ==
    /\ pc = "raised"
    /\ WellFormedLine(Lines[lineno + 1])
    /\ error.type = "AssertionError"
    /\ error.args[3] = Len(categories)

\* a token up to its last dot
RootBeforeLastDot(tok) ==
    IF RFind(tok, ExtSep) = 0 THEN tok ELSE SubSeq(tok, 1, RFind(tok, ExtSep) - 1)

\* a token without its extension, where the extension starts at the last dot of
\* the last path component and exists only if the component has a character
\* other than a dot before it
RootOfLastComponent(tok) ==
    LET cuts == {d \in 1..Len(tok) :
                    /\ tok[d] = ExtSep
                    /\ \A j \in (d + 1)..Len(tok) : tok[j] \notin {ExtSep, PathSep}
                    /\ \E k \in 1..(d - 1) :
                          tok[k] # ExtSep /\ \A j \in k..d : tok[j] # PathSep}
    IN  IF cuts = {} THEN tok ELSE SubSeq(tok, 1, (CHOOSE d \in cuts : TRUE) - 1)

\* what a line is said to decode to, given the rule that removes the extension
ExpectedItem(line, Root(_)) ==
    LET toks == TokensOf(line)
        id == IF NumQuotes(line) = 0 THEN Root(toks[1]) ELSE TextInQuotes(line)
        filename == IF NumQuotes(line) = 0 THEN toks[1] ELSE id \o toks[1]
    IN  DatasetItem(id, OspJoin(ImageDir, filename), LabelValues(line))

StoredAs(item) ==
    \E k \in 1..Len(items) : items[k].key = item.id /\ items[k].value = item

\* C5 as stated: the line just consumed is stored with the first token as image
\* filename and that token up to its last dot as id (no quote), or with the text
\* between the quotes as id and the id followed by the next token as image
\* filename (two quotes), and with the remaining tokens as its labels, in order,
\* duplicates kept.
C5_AsStated ==
    lineno >= 1 => StoredAs(ExpectedItem(Lines[lineno], RootBeforeLastDot))

\* C5, amended: the same, where the extension removed from an unquoted filename
\* is the one os.path.splitext finds: it starts at the last dot of the last
\* '/'-separated component, and a component with nothing but dots before that dot
\* has no extension and is the id as a whole.
C5_LineDecoding ==
    lineno >= 1 => StoredAs(ExpectedItem(Lines[lineno], RootOfLastComponent))

\* a quoted line with a repeated label has just been consumed
C5_Witness ==
    /\ lineno >= 1
    /\ NumQuotes(Lines[lineno]) = 2
    /\ \E k \in 1..Len(items) :
          /\ items[k].key = <<"a", " ", "b">>
          /\ items[k].value.image = ImageDir \o <<"/", "a", " ", "b", ".", "p">>
          /\ items[k].value.annotations = <<1, 1>>

\* C7: once a line fails to decode, __init__ has raised: self._items is never
\* assigned, nothing more is decoded, and a file that is decoded to the end has
\* no line that fails to decode.
C7_AbortOnError ==
    /\ pc = "raised" =>
          /\ error.type \in {"Exception", "AssertionError", "ValueError", "IndexError"}
          /\ self_items = Unset
          /\ ParseLine(Lines[lineno + 1], Len(categories)).error = error
          /\ ~ENABLED Next
    /\ pc = "load_items" => self_items = Unset /\ error = NoError
    /\ pc = "done" =>
          /\ error = NoError
          /\ Len(self_items) <= Len(Lines)
          /\ \A i \in 1..Len(Lines) :
                ParseLine(Lines[i], Len(categories)).error = NoError

\* the decode stopped at a bad line after it had decoded items
C7_Witness ==
    /\ pc = "raised"
    /\ lineno >= 1
    /\ items # <<>>
    /\ self_items = Unset
    /\ error.type = "ValueError"

\* C9 as stated: a file whose last line is empty or blank is decoded like the
\* file without that line: the decode does not fail at it, and the result is the
\* records of the lines before it.
C9_TrailingBlankLine ==
    (Len(Lines) >= 1 /\ Strip(Lines[Len(Lines)]) = <<>>) =>
        /\ ~(pc = "raised" /\ lineno = Len(Lines) - 1)
        /\ pc = "done" => self_items = [k \in 1..Len(items) |-> items[k].value]

(***************************************************************************)
(* Properties of the round trip.                                           *)
(***************************************************************************)
HasWhitespace(s) == \E i \in 1..Len(s) : s[i] \in Whitespace

LabelsOf(item) ==
    {item.annotations[i].label :
        i \in {j \in 1..Len(item.annotations) : item.annotations[j].type = "label"}}

\* C1 as stated: for a subset whose ids hold no double quote and whose label
\* ids are in the catalog, the extractor reads back what the converter wrote:
\* the same ids in the same order, each with the image filename id + extension
\* and with the same set of label ids.
C1_RoundTrip ==
    (/\ \A i \in 1..Len(subset) : Count(subset[i].id, Quote) = 0
     /\ \A i \in 1..Len(subset) : \A l \in LabelsOf(subset[i]) : l \in 0..(Len(src_labels) - 1))
    =>
        /\ pc # "raised"
        /\ pc = "done" =>
              /\ Len(self_items) = Len(subset)
              /\ \A i \in 1..Len(subset) :
                    /\ self_items[i].id = subset[i].id
                    /\ self_items[i].image =
                          OspJoin(ImageDir, subset[i].id \o FindImageExt(subset[i]))
                    /\ {self_items[i].annotations[a] :
                           a \in 1..Len(self_items[i].annotations)} = LabelsOf(subset[i])

\* C6 as stated: the filename token of an item is its id, in double quotes if
\* and only if the id holds a whitespace character, directly followed by the
\* extension.
C6_QuotingRule ==
    pc # "apply" =>
        /\ Len(conv_labels) = Len(subset)
        /\ \A i \in 1..Len(subset) :
              conv_labels[i].key =
                  (IF HasWhitespace(subset[i].id)
                   THEN <<Quote>> \o subset[i].id \o <<Quote>>
                   ELSE subset[i].id) \o FindImageExt(subset[i])

CleanName(name) ==
    /\ \A i \in 1..Len(name) : name[i] \notin {"\n", "\r"}
    /\ name # <<>> => name[1] \notin Whitespace /\ name[Len(name)] \notin Whitespace

\* C8: the labels file holds each name followed by a line terminator, in catalog
\* order; if no name holds a line break or leading or trailing whitespace, the
\* catalog read back has the same names at the same positions, repeated and
\* empty names included.
C8_CatalogRoundTrip ==
    /\ pc # "apply" =>
          labels_file = Concat([i \in 1..Len(src_labels) |-> src_labels[i] \o <<NL>>])
    /\ (pc \in {"load_items", "done", "raised"}
        /\ \A i \in 1..Len(src_labels) : CleanName(src_labels[i]))
       => categories = src_labels

\* a catalog of two empty names has been stored and read back
C8_Witness ==
    /\ pc = "done"
    /\ src_labels = << <<>>, <<>> >>
    /\ categories = src_labels

\* the label ids of an item, later duplicates dropped
RECURSIVE FirstOccurrences(_)
FirstOccurrences(ls) ==
    IF ls = <<>> THEN <<>>
    ELSE LET init == FirstOccurrences(SubSeq(ls, 1, Len(ls) - 1))
             l == ls[Len(ls)]
         IN  IF \E i \in 1..Len(init) : init[i] = l THEN init ELSE Append(init, l)

LabelList(item) ==
    LET anns == SelectSeq(item.annotations, LAMBDA p : p.type = "label")
    IN  [i \in 1..Len(anns) |-> anns[i].label]

\* the elements of a set of ints, each once, smallest first
Ascending(S) ==
    CHOOSE q \in [1..Cardinality(S) -> S] :
        \A a, b \in 1..Cardinality(S) : a < b => q[a] < q[b]

\* the annotation text whose line for item i has the label tokens Tokens(item i)
TextWithTokens(Tokens(_)) ==
    Concat([i \in 1..Len(subset) |->
        conv_labels[i].key \o <<Space>>
            \o JoinSpace([k \in 1..Len(Tokens(subset[i])) |-> IntToStr(Tokens(subset[i])[k])])
            \o <<NL>>])

FirstOccurrenceTokens(item) == FirstOccurrences(LabelList(item))
AscendingTokens(item) == Ascending(LabelsOf(item))

\* C10 as stated: the label tokens of an item's line are its distinct label ids
\* in the order of their first occurrence.
C10_AsStated ==
    pc # "apply" =>
        Len(conv_labels) = Len(subset) /\ annotation_file = TextWithTokens(FirstOccurrenceTokens)

\* C10, amended: the label tokens of an item's line are its distinct label ids,
\* each written once, in the iteration order of the set, which for label ids
\* below 8 is ascending: labels 1 then 0 are written "0 1".
C10_LabelOrder ==
    pc # "apply" =>
        Len(conv_labels) = Len(subset) /\ annotation_file = TextWithTokens(AscendingTokens)

\* an item whose labels are 1 then 0 has been written as "a.jpg 0 1"
C10_Witness ==
    /\ pc = "init"
    /\ subset = <<DatasetItem(<<"a">>, <<>>, <<Label(1), Label(0)>>)>>
    /\ annotation_file = <<"a", ".", "j", "p", "g", " ", "0", " ", "1", "\n">>

====
